---- MODULE Spec2Model ----
(***************************************************************************)
(* Model of streamlit_app.py: the "Metrics & Releases Dashboard".          *)
(*                                                                         *)
(* The script is re-executed from top to bottom on every change of a       *)
(* sidebar control.  One pass loads the two cached tables, derives the     *)
(* percentage columns, filters the metric rows to the selected date range, *)
(* buckets them by day / Sunday-Saturday week / calendar month, averages   *)
(* the selected metric per bucket, labels and orders the buckets, does the *)
(* same for the releases (count and joined issue keys per bucket), and     *)
(* either renders the layered chart or shows the "no data" warning.        *)
(*                                                                         *)
(* Representation.                                                         *)
(*   - A Timestamp is a number of seconds since 1970-01-01 00:00 (pandas   *)
(*     keeps nanoseconds; the sub-second part is dropped).                 *)
(*   - A date (datetime.date) is a number of days since 1970-01-01.        *)
(*   - A float is a record [k, n, d]: k = "num" with the exact reduced     *)
(*     fraction n/d, k = "inf" for +infinity, k = "nan" for NaN.  The      *)
(*     rounding error of IEEE doubles is not modelled.                     *)
(*   - Strings produced by strftime / str are built as TLA+ strings.       *)
(*                                                                         *)
(* Left out: the "raw data" expander (section 7 of the script), which      *)
(* only displays df_agg and rel_filtered; the pass in which the date_input *)
(* holds a single date (the unpacking at line 54 fails and nothing is      *)
(* computed); the drawing done by Altair.  st.date_input is taken by its   *)
(* signature: it hands back two dates within [min_value, max_value].       *)
(***************************************************************************)
EXTENDS Integers, Sequences, FiniteSets, TLC

(***************************************************************************)
(* Bounds of the model.                                                    *)
(***************************************************************************)
NumDays  == 2   \* days of the calendar window the two files draw their dates from
MaxRows  == 3   \* rows of the two files with a date of the window
MaxCount == 2   \* largest raw count drawn for a metric row

(***************************************************************************)
(* Proleptic Gregorian calendar, as used by pandas Timestamp / Period.     *)
(***************************************************************************)
SecPerDay == 24 * 60 * 60

\* days since 1970-01-01 of the civil date y-m-d
DaysFromCivil(y, m, d) ==
    LET yy  == IF m <= 2 THEN y - 1 ELSE y
        era == yy \div 400
        yoe == yy - era * 400
        mp  == IF m > 2 THEN m - 3 ELSE m + 9
        doy == (153 * mp + 2) \div 5 + d - 1
        doe == yoe * 365 + yoe \div 4 - yoe \div 100 + doy
    IN  era * 146097 + doe - 719468

\* the civil date [y, m, d] of a day number, computed in stages: the day of
\* the 400-year era, the year of the era, the day of the year (from 1 March),
\* the month (from March)
CivilOfMonth(era, yoe, doy, mp) ==
    [y |-> yoe + era * 400 + (IF mp >= 10 THEN 1 ELSE 0),
     m |-> IF mp < 10 THEN mp + 3 ELSE mp - 9,
     d |-> doy - (153 * mp + 2) \div 5 + 1]
CivilOfDayOfYear(era, yoe, doy) == CivilOfMonth(era, yoe, doy, (5 * doy + 2) \div 153)
CivilOfYearOfEra(era, doe, yoe) ==
    CivilOfDayOfYear(era, yoe, doe - (365 * yoe + yoe \div 4 - yoe \div 100))
CivilOfDayOfEra(era, doe) ==
    CivilOfYearOfEra(era, doe,
        (doe - doe \div 1460 + doe \div 36524 - doe \div 146096) \div 365)
CivilFromDays(z) ==
    CivilOfDayOfEra((z + 719468) \div 146097, (z + 719468) % 146097)

IsLeap(y) == (y % 4 = 0 /\ y % 100 # 0) \/ y % 400 = 0

DaysInMonth(y, m) ==
    IF m = 2 THEN (IF IsLeap(y) THEN 29 ELSE 28)
    ELSE IF m \in {4, 6, 9, 11} THEN 30 ELSE 31

\* Timestamp.date(), Timestamp.normalize(), pd.to_datetime(date)
DateOf(ts)      == ts \div SecPerDay
normalize(ts)   == DateOf(ts) * SecPerDay
to_datetime(dt) == dt * SecPerDay

\* Timestamp.weekday(): Monday = 0 ... Sunday = 6 (1970-01-01 was a Thursday)
Weekday(dt) == (dt + 3) % 7

\* strftime directives
MonthAbbr == <<"Jan", "Feb", "Mar", "Apr", "May", "Jun",
               "Jul", "Aug", "Sep", "Oct", "Nov", "Dec">>
DayAbbr   == <<"Mon", "Tue", "Wed", "Thu", "Fri", "Sat", "Sun">>
Pad2(n)   == IF n < 10 THEN "0" \o ToString(n) ELSE ToString(n)

\* Timestamp.strftime for the three formats of the script
FormatADB(wd, c) == DayAbbr[wd + 1] \o ", " \o Pad2(c.d) \o " " \o MonthAbbr[c.m]
FormatBD(c)      == MonthAbbr[c.m] \o " " \o Pad2(c.d)
FormatBY(c)      == MonthAbbr[c.m] \o " " \o Pad2(c.y % 100)

strftime_a_d_b(ts) == FormatADB(Weekday(DateOf(ts)), CivilFromDays(DateOf(ts)))  \* "%a, %d %b"
strftime_b_d(ts)   == FormatBD(CivilFromDays(DateOf(ts)))                        \* "%b %d"
strftime_b_y(ts)   == FormatBY(CivilFromDays(DateOf(ts)))                        \* "%b %y"

(***************************************************************************)
(* Period bucketing: to_period("W-SAT") and to_period("M").                *)
(* A weekly period of frequency W-SAT ends on a Saturday.  pandas numbers  *)
(* the weeks by floor((unix_day + 3 - 6) / 7) + 1; week n starts on day    *)
(* 7n - 4 at 00:00 and ends on day 7n + 2 at 23:59:59.999999999.           *)
(***************************************************************************)
\* mutation of WeekOrdinal: to_period("W"), whose weeks end on a Sunday
WeekOrdinal_EndSunday(ts) == (DateOf(ts) + 3) \div 7 + 1

WeekOrdinal(ts)      == (DateOf(ts) + 3 - 6) \div 7 + 1
week_start_time(ts)  == (WeekOrdinal(ts) * 7 - 4) * SecPerDay
week_end_time(ts)    == (WeekOrdinal(ts) * 7 + 2) * SecPerDay + (SecPerDay - 1)
FirstOfMonth(c)      == DaysFromCivil(c.y, c.m, 1)
month_start_time(ts) == FirstOfMonth(CivilFromDays(DateOf(ts))) * SecPerDay

(***************************************************************************)
(* Floats: int / int, * 100, sum, mean(skipna), round(2), astype(str).     *)
(***************************************************************************)
RECURSIVE Gcd(_, _)
Gcd(a, b) == IF b = 0 THEN a ELSE Gcd(b, a % b)

NaN       == [k |-> "nan", n |-> 0, d |-> 1]
Inf       == [k |-> "inf", n |-> 0, d |-> 1]
Rat(n, d) == LET g == Gcd(n, d) IN [k |-> "num", n |-> n \div g, d |-> d \div g]

\* Series / Series on two integer columns: x/0 is inf for x > 0 and NaN for x = 0
TrueDiv(num, den) ==
    IF den = 0 THEN (IF num = 0 THEN NaN ELSE Inf) ELSE Rat(num, den)

FMulInt(v, c) == IF v.k = "num" THEN Rat(v.n * c, v.d) ELSE v
FDivInt(v, c) == IF v.k = "num" THEN Rat(v.n, v.d * c) ELSE v
FAdd(a, b) ==
    IF a.k = "nan" \/ b.k = "nan" THEN NaN
    ELSE IF a.k = "inf" \/ b.k = "inf" THEN Inf
    ELSE Rat(a.n * b.d + b.n * a.d, a.d * b.d)

RECURSIVE FSum(_)
FSum(vs) == IF vs = <<>> THEN Rat(0, 1) ELSE FAdd(Head(vs), FSum(Tail(vs)))

IsNotNaN(v) == v.k # "nan"

\* mutation of mean: the aggregation "sum" in the place of "mean"
mean_Sum(vs) == FSum(SelectSeq(vs, IsNotNaN))

\* groupby(...).agg(value=(col, "mean")): NaN entries are skipped; a group
\* with no entry left has mean NaN
mean(vs) ==
    LET present == SelectSeq(vs, IsNotNaN)
    IN  IF present = <<>> THEN NaN ELSE FDivInt(FSum(present), Len(present))

\* Series.round(2): to the nearest hundredth, ties to even
round2(v) ==
    IF v.k # "num" THEN v
    ELSE LET q  == 100 * v.n
             fl == q \div v.d
             r  == q % v.d
             h  == IF 2 * r < v.d THEN fl
                   ELSE IF 2 * r > v.d THEN fl + 1
                   ELSE IF fl % 2 = 0 THEN fl ELSE fl + 1
         IN  Rat(h, 100)

\* astype(str) of a float that has at most two decimals
FloatStr(v) ==
    IF v.k = "nan" THEN "nan"
    ELSE IF v.k = "inf" THEN "inf"
    ELSE LET h == (100 * v.n) \div v.d
             w == h \div 100
             f == h % 100
         IN  IF f % 10 = 0 THEN ToString(w) \o "." \o ToString(f \div 10)
             ELSE ToString(w) \o "." \o Pad2(f)

(***************************************************************************)
(* Sequences.                                                              *)
(***************************************************************************)
\* DataFrame.sort_values("period_start"): ascending by period_start
RECURSIVE InsertSorted(_, _)
InsertSorted(r, s) ==
    IF s = <<>> THEN <<r>>
    ELSE IF r.period_start < Head(s).period_start THEN <<r>> \o s
    ELSE <<Head(s)>> \o InsertSorted(r, Tail(s))

RECURSIVE SortedByPeriodStart(_)
SortedByPeriodStart(s) ==
    IF s = <<>> THEN <<>>
    ELSE InsertSorted(s[Len(s)], SortedByPeriodStart(SubSeq(s, 1, Len(s) - 1)))

\* mutation of sort_values: ascending=False
sort_values_Descending(s) ==
    [i \in DOMAIN s |-> SortedByPeriodStart(s)[Len(s) + 1 - i]]

sort_values(s) == SortedByPeriodStart(s)

\* ", ".join(keys)
RECURSIVE Join(_, _)
Join(sep, ks) ==
    IF ks = <<>> THEN ""
    ELSE IF Len(ks) = 1 THEN ks[1]
    ELSE ks[1] \o sep \o Join(sep, Tail(ks))

\* the ascending sequence of a finite set of group keys; a key is
\* <<period_start>> or <<period_start, period_end>>, compared column by column
KeyLess(a, b) ==
    \/ a[1] < b[1]
    \/ a[1] = b[1] /\ Len(a) = 2 /\ a[2] < b[2]

RECURSIVE SortedKeys(_)
SortedKeys(S) ==
    IF S = {} THEN <<>>
    ELSE LET lo == CHOOSE x \in S : \A y \in S \ {x} : KeyLess(x, y)
         IN  <<lo>> \o SortedKeys(S \ {lo})

(***************************************************************************)
(* 2. DATA LOADING: the contents of the two CSV files.                     *)
(***************************************************************************)
\* The window starts on Sat 1 Jun 2024, the last day of a week; Sun 2 Jun
\* starts the next one.
DayBase == DaysFromCivil(2024, 6, 1)
Days    == DayBase .. (DayBase + NumDays - 1)
DayTs   == {to_datetime(d) : d \in Days}      \* parse_dates of a date column
Counts  == 0 .. MaxCount

\* st.date_input takes its default range only if it lies within
\* [min_value, max_value] = [min_date, max_date].  Every metrics file therefore
\* ends with a row of Thu 30 Nov 2023, more than four months before the
\* window, so that the defaults of the three granularities are accepted.  The
\* row is the last of the file, so the file is not in date order, and its
\* labels ("Thu, 30 Nov", "Nov 26 - Dec 02", "Nov 23") come after those of
\* the window in the order of strings.
FirstDay == DaysFromCivil(2023, 11, 30)

\* A metric row whose counts are fixed by its position i in the file:
\* ticket_rate = 100 / i and msat = 100 * i / (i + 1).
PlainRow(i, ts) ==
    [date_ |-> ts, active_sessions |-> i, fd_tickets |-> 1,
     feedback_given |-> i + 1, happy |-> i]

\* A metric row with drawn counts: fd_tickets / active_sessions is b / a and
\* happy / feedback_given is a / b, so each ratio sees every pair of Counts.
DrawnRow(a, b, ts) ==
    [date_ |-> ts, active_sessions |-> a, fd_tickets |-> b,
     feedback_given |-> b, happy |-> a]

\* The issue keys of the release file, by row; they do not ascend with the rows.
IssueKey(i) == "REL-" \o ToString(MaxRows + 1 - i)
\* `updated` is a time of a day: midnight in the odd rows of the release file,
\* 10:00 in the even rows.
UpdatedAt(i, ts)  == ts + ((i + 1) % 2) * (10 * 60 * 60)
ReleaseRow(i, ts) == [issue_key |-> IssueKey(i), updated |-> UpdatedAt(i, ts)]

\* Files whose dates are drawn freely from the window, in any row order:
\* n metric rows of the window (at least one), the row of FirstDay, and k
\* release rows; at most MaxRows rows of the window together.
DatedFiles ==
    UNION {
        IF n + k > MaxRows THEN {} ELSE
        {[metrics  |-> [i \in 1..(n + 1) |->
                            IF i <= n THEN PlainRow(i, ds[i])
                            ELSE PlainRow(i, to_datetime(FirstDay))],
          releases |-> [i \in 1..k |-> ReleaseRow(i, us[i])]] :
            ds \in [1..n -> DayTs], us \in [1..k -> DayTs]} :
        n \in 1..MaxRows, k \in 0..(MaxRows - 1)}

\* Metric files whose rows of the window are in date order and whose first
\* row has drawn counts; no release.
CountedFiles ==
    UNION {
        {[metrics  |-> [i \in 1..(n + 1) |->
                            IF i = 1 THEN DrawnRow(ab[1], ab[2], ds[i])
                            ELSE IF i <= n THEN PlainRow(i, ds[i])
                            ELSE PlainRow(i, to_datetime(FirstDay))],
          releases |-> <<>>] :
            ds \in {x \in [1..n -> DayTs] : \A i \in 1..(n - 1) : x[i] <= x[i + 1]},
            ab \in Counts \X Counts} :
        n \in 1..MaxRows}

\* @st.cache_data load_data(): a hit returns the tables stored at the first call
load_data(cached) == cached

(***************************************************************************)
(* 3. DERIVED METRICS                                                      *)
(***************************************************************************)
assign_derived(m) ==
    [i \in DOMAIN m |->
        m[i] @@ [ticket_rate |-> FMulInt(TrueDiv(m[i].fd_tickets, m[i].active_sessions), 100),
                 msat        |-> FMulInt(TrueDiv(m[i].happy, m[i].feedback_given), 100)]]

(***************************************************************************)
(* 4. USER CONTROLS                                                        *)
(***************************************************************************)
Granularities == {"Daily", "Weekly", "Monthly"}
MetricLabels  == {"Ticket Creation Rate %", "MSAT"}

metric_options(label) ==
    IF label = "Ticket Creation Rate %" THEN "ticket_rate" ELSE "msat"

Column(row, col) == IF col = "ticket_rate" THEN row.ticket_rate ELSE row.msat

min_date(m) == DateOf(CHOOSE t \in {m[i].date_ : i \in DOMAIN m} :
                        \A i \in DOMAIN m : t <= m[i].date_)
max_date(m) == DateOf(CHOOSE t \in {m[i].date_ : i \in DOMAIN m} :
                        \A i \in DOMAIN m : t >= m[i].date_)

\* date - pd.DateOffset(months = k): k months back, the day clamped to the
\* length of the target month
ClampedDate(y, mo, d) ==
    DaysFromCivil(y, mo, IF d > DaysInMonth(y, mo) THEN DaysInMonth(y, mo) ELSE d)
MonthsBack(c, k) ==
    ClampedDate((c.y * 12 + (c.m - 1) - k) \div 12,
                ((c.y * 12 + (c.m - 1) - k) % 12) + 1, c.d)
MinusMonths(dt, k) == MonthsBack(CivilFromDays(dt), k)

default_start(g, maxd) ==
    IF g = "Daily" THEN maxd - 14
    ELSE IF g = "Weekly" THEN maxd - 5 * 7
    ELSE MinusMonths(maxd, 4)

(***************************************************************************)
(* 5. AGGREGATION & FORMATTING                                             *)
(***************************************************************************)
\* metrics_df[(date_ >= to_datetime(start_date)) & (date_ <= to_datetime(end_date))].copy()
filter_metrics(mdf, s, e) ==
    SelectSeq(mdf, LAMBDA r : r.date_ >= to_datetime(s) /\ r.date_ <= to_datetime(e))

\* Weekly and Monthly add the columns period_start (and period_end) to df
metric_periods(f, g) ==
    IF g = "Daily" THEN f
    ELSE IF g = "Weekly"
    THEN [i \in DOMAIN f |->
            f[i] @@ [period_start |-> week_start_time(f[i].date_),
                     period_end   |-> week_end_time(f[i].date_)]]
    ELSE [i \in DOMAIN f |-> f[i] @@ [period_start |-> month_start_time(f[i].date_)]]

\* the columns df is grouped by
metric_key(g, r) ==
    IF g = "Daily" THEN <<r.date_>>
    ELSE IF g = "Weekly" THEN <<r.period_start, r.period_end>>
    ELSE <<r.period_start>>

KeyColumns(g, k) ==
    IF g = "Weekly" THEN [period_start |-> k[1], period_end |-> k[2]]
    ELSE [period_start |-> k[1]]

\* the rows of a group, in the order of the frame
GroupRows(f, g, k) == SelectSeq(f, LAMBDA r : metric_key(g, r) = k)
ColumnValues(rows, col) == [i \in DOMAIN rows |-> Column(rows[i], col)]

\* df.groupby(keys, as_index=False).agg(value=(metric_column, "mean")):
\* one row per key that occurs, keys ascending (Daily renames date_ to
\* period_start)
MeanRows(f, g, col, keys) ==
    [i \in DOMAIN keys |->
        KeyColumns(g, keys[i])
        @@ [value |-> mean(ColumnValues(GroupRows(f, g, keys[i]), col))]]
groupby_mean(f, g, col) ==
    MeanRows(f, g, col, SortedKeys({metric_key(g, f[i]) : i \in DOMAIN f}))

\* mutation of metric_time: the Daily label without the day of the week
metric_time_NoWeekday(g, row) ==
    IF g = "Daily" THEN strftime_b_d(row.period_start)
    ELSE IF g = "Weekly"
    THEN strftime_b_d(row.period_start) \o " - " \o strftime_b_d(row.period_end)
    ELSE strftime_b_y(row.period_start)

\* the `time` label of a row of df_agg
metric_time(g, row) ==
    IF g = "Daily" THEN strftime_a_d_b(row.period_start)
    ELSE IF g = "Weekly"
    THEN strftime_b_d(row.period_start) \o " - " \o strftime_b_d(row.period_end)
    ELSE strftime_b_y(row.period_start)

with_metric_time(agg, g) ==
    [i \in DOMAIN agg |-> agg[i] @@ [time |-> metric_time(g, agg[i])]]

\* df_agg["time"].tolist()
time_list(agg) == [i \in DOMAIN agg |-> agg[i].time]

\* if not df_agg.empty: value_label = value.round(2).astype(str) + "%"
with_value_label(agg) ==
    IF agg = <<>> THEN agg
    ELSE [i \in DOMAIN agg |->
            agg[i] @@ [value_label |-> FloatStr(round2(agg[i].value)) \o "%"]]

(***************************************************************************)
(* 6. CHARTING: the release annotations                                    *)
(***************************************************************************)
\* mutation of filter_releases: the end of the range excluded
filter_releases_BeforeEnd(rdf, s, e) ==
    SelectSeq(rdf, LAMBDA r : r.updated >= to_datetime(s) /\ r.updated < to_datetime(e))

\* releases_df[(updated >= to_datetime(start_date)) & (updated <= to_datetime(end_date))].copy()
filter_releases(rdf, s, e) ==
    SelectSeq(rdf, LAMBDA r : r.updated >= to_datetime(s) /\ r.updated <= to_datetime(e))

\* the columns period_start (and period_end) added to rel_filtered
release_periods(rf, g) ==
    IF g = "Daily"
    THEN [i \in DOMAIN rf |-> rf[i] @@ [period_start |-> normalize(rf[i].updated)]]
    ELSE IF g = "Weekly"
    THEN [i \in DOMAIN rf |->
            rf[i] @@ [period_start |-> week_start_time(rf[i].updated),
                      period_end   |-> week_end_time(rf[i].updated)]]
    ELSE [i \in DOMAIN rf |-> rf[i] @@ [period_start |-> month_start_time(rf[i].updated)]]

\* [c for c in ["period_start", "period_end"] if c in rel_filtered]
release_key(g, r) ==
    IF g = "Weekly" THEN <<r.period_start, r.period_end>> ELSE <<r.period_start>>

ReleaseGroup(rf, g, k) == SelectSeq(rf, LAMBDA r : release_key(g, r) = k)
IssueKeysOf(rows) == [i \in DOMAIN rows |-> rows[i].issue_key]

\* rel_filtered.groupby(keys, dropna=False)
\*   .agg(releases_count=("issue_key", "count"),
\*        releases_keys=("issue_key", lambda keys: ", ".join(keys))).reset_index()
CountRows(rf, g, keys) ==
    [i \in DOMAIN keys |->
        KeyColumns(g, keys[i])
        @@ [releases_count |-> Len(ReleaseGroup(rf, g, keys[i])),
            releases_keys  |-> Join(", ", IssueKeysOf(ReleaseGroup(rf, g, keys[i])))]]
groupby_releases(rf, g) ==
    CountRows(rf, g, SortedKeys({release_key(g, rf[i]) : i \in DOMAIN rf}))

\* mutation of release_time: the Monthly label with the day of the month
release_time_MonthDay(g, row) ==
    IF g = "Daily" THEN strftime_a_d_b(row.period_start)
    ELSE IF g = "Weekly"
    THEN strftime_b_d(row.period_start) \o " - " \o strftime_b_d(row.period_end)
    ELSE strftime_b_d(row.period_start)

\* the rebuilt `time` label of a row of rel_count
release_time(g, row) ==
    IF g = "Daily" THEN strftime_a_d_b(row.period_start)
    ELSE IF g = "Weekly"
    THEN strftime_b_d(row.period_start) \o " - " \o strftime_b_d(row.period_end)
    ELSE strftime_b_y(row.period_start)

with_release_time(rc, g) ==
    [i \in DOMAIN rc |-> rc[i] @@ [time |-> release_time(g, rc[i])]]

\* if df_agg.empty: st.warning(...) else: st.altair_chart(chart)
show_warning(agg) == agg = <<>>

\* mutation of show_chart: the chart rendered outside the else branch
show_chart_Always(agg) == TRUE

show_chart(agg)   == agg # <<>>

(***************************************************************************)
(* State of the app.                                                       *)
(***************************************************************************)
VARIABLES
    cache,         \* what st.cache_data holds for load_data(): [metrics, releases]
    metrics_df,    \* the metrics table with the derived columns
    releases_df,   \* the releases table
    gran,          \* "Time Granularity" selectbox
    start_date,    \* "Date Range" date_input, first date
    end_date,      \* "Date Range" date_input, second date
    metric_label,  \* "Metric to plot" selectbox
    df,            \* the metric rows of the selected range
    df_agg,        \* one row per metric bucket
    axis_order,    \* the categorical order given to every chart layer
    rel_filtered,  \* the releases of the selected range
    rel_count,     \* one row per release bucket
    warning,       \* the "No metric data available" warning is on the page
    chart          \* the layered chart is on the page

vars == <<cache, metrics_df, releases_df, gran, start_date, end_date,
          metric_label, df, df_agg, axis_order, rel_filtered, rel_count,
          warning, chart>>

\* mutation of Charting: the release filter without .copy(), the period
\* columns written to the rows of the loaded table that it kept
Charting_InPlace(loaded, m, f, agg, rf, g, s, e, ml) ==
    [cache        |-> loaded,
     metrics_df   |-> m,
     releases_df  |-> rf,
     gran         |-> g,
     start_date   |-> s,
     end_date     |-> e,
     metric_label |-> ml,
     df           |-> f,
     df_agg       |-> with_value_label(agg),
     axis_order   |-> time_list(agg),
     rel_filtered |-> rf,
     rel_count    |-> sort_values(with_release_time(groupby_releases(rf, g), g)),
     warning      |-> show_warning(agg),
     chart        |-> show_chart(agg)]

\* One execution of the script with the widgets at (g, s, e, ml), section by
\* section; the result is the value every variable has at the end.
Charting(loaded, m, f, agg, rf, g, s, e, ml) ==
    [cache        |-> loaded,
     metrics_df   |-> m,
     releases_df  |-> loaded.releases,
     gran         |-> g,
     start_date   |-> s,
     end_date     |-> e,
     metric_label |-> ml,
     df           |-> f,
     df_agg       |-> with_value_label(agg),
     axis_order   |-> time_list(agg),
     rel_filtered |-> rf,
     rel_count    |-> sort_values(with_release_time(groupby_releases(rf, g), g)),
     warning      |-> show_warning(agg),
     chart        |-> show_chart(agg)]

Aggregation(loaded, m, f, g, s, e, ml) ==
    Charting(loaded, m, f,
             sort_values(with_metric_time(groupby_mean(f, g, metric_options(ml)), g)),
             release_periods(filter_releases(loaded.releases, s, e), g),
             g, s, e, ml)

DerivedMetrics(loaded, m, g, s, e, ml) ==
    Aggregation(loaded, m, metric_periods(filter_metrics(m, s, e), g), g, s, e, ml)

DataLoading(loaded, g, s, e, ml) ==
    DerivedMetrics(loaded, assign_derived(loaded.metrics), g, s, e, ml)

Script(c, g, s, e, ml) == DataLoading(load_data(c), g, s, e, ml)

Run(c, g, s, e, ml) ==
    \E p \in {Script(c, g, s, e, ml)} :
        /\ cache'        = p.cache
        /\ metrics_df'   = p.metrics_df
        /\ releases_df'  = p.releases_df
        /\ gran'         = p.gran
        /\ start_date'   = p.start_date
        /\ end_date'     = p.end_date
        /\ metric_label' = p.metric_label
        /\ df'           = p.df
        /\ df_agg'       = p.df_agg
        /\ axis_order'   = p.axis_order
        /\ rel_filtered' = p.rel_filtered
        /\ rel_count'    = p.rel_count
        /\ warning'      = p.warning
        /\ chart'        = p.chart

\* The first execution: the files are read, every widget is at its default
\* ("Daily", [default_start, max_date], the first metric).
FirstRun(c) ==
    \E p \in {Script(c, "Daily", default_start("Daily", max_date(c.metrics)),
                     max_date(c.metrics), "Ticket Creation Rate %")} :
        /\ cache        = p.cache
        /\ metrics_df   = p.metrics_df
        /\ releases_df  = p.releases_df
        /\ gran         = p.gran
        /\ start_date   = p.start_date
        /\ end_date     = p.end_date
        /\ metric_label = p.metric_label
        /\ df           = p.df
        /\ df_agg       = p.df_agg
        /\ axis_order   = p.axis_order
        /\ rel_filtered = p.rel_filtered
        /\ rel_count    = p.rel_count
        /\ warning      = p.warning
        /\ chart        = p.chart

Init       == \E c \in DatedFiles : FirstRun(c)
InitCounts == \E c \in CountedFiles : FirstRun(c)

\* The granularity is changed.  The date_input's default changes with it, so
\* the widget comes back at [default_start, max_date].
SelectGranularity ==
    \E g \in Granularities \ {gran} :
        Run(cache, g, default_start(g, max_date(metrics_df)), max_date(metrics_df),
            metric_label)

\* The dates that are picked in the model: the first day of the data and the
\* days of the window, as far as min_value and max_value admit them.
PickedDates(m) == {d \in {FirstDay} \cup Days : min_date(m) <= d /\ d <= max_date(m)}

\* Two dates are picked in the date_input; min_value and max_value keep each
\* of them within [min_date, max_date].  The script does not compare the two.
SelectDateRange ==
    \E s, e \in PickedDates(metrics_df) :
        /\ <<s, e>> # <<start_date, end_date>>
        /\ Run(cache, gran, s, e, metric_label)

\* Another metric is chosen.
SelectMetric ==
    \E ml \in MetricLabels \ {metric_label} :
        Run(cache, gran, start_date, end_date, ml)

\* The script is run again with no widget changed (the "Rerun" command).
Rerun == Run(cache, gran, start_date, end_date, metric_label)

Next == SelectGranularity \/ SelectDateRange \/ SelectMetric \/ Rerun

\* the app over files with freely dated rows
Spec == Init /\ [][Next]_vars

\* the app over metric files with drawn counts
SpecCounts == InitCounts /\ [][Next]_vars

(***************************************************************************)
(* Calendar notions the properties are stated with.                        *)
(***************************************************************************)
\* Timestamp.weekday() counts from Monday = 0
IsSunday(dt)   == Weekday(dt) = 6
IsSaturday(dt) == Weekday(dt) = 5

\* the Sunday on or before a day
SundayOnOrBefore(dt) == dt - ((Weekday(dt) + 1) % 7)

SameMonth(c1, c2) == c1.y = c2.y /\ c1.m = c2.m

\* two timestamps lie in the same calendar period of granularity g
SamePeriod(g, t1, t2) ==
    IF g = "Daily" THEN DateOf(t1) = DateOf(t2)
    ELSE IF g = "Weekly"
    THEN SundayOnOrBefore(DateOf(t1)) = SundayOnOrBefore(DateOf(t2))
    ELSE SameMonth(CivilFromDays(DateOf(t1)), CivilFromDays(DateOf(t2)))

\* a timestamp lies in the selected range, both ends included
InSelectedRange(ts) == start_date * SecPerDay <= ts /\ ts <= end_date * SecPerDay

\* the raw counts behind the selected metric
SelectedIsMsat == metric_label = "MSAT"
Numer(r) == IF SelectedIsMsat THEN r.happy ELSE r.fd_tickets
Denom(r) == IF SelectedIsMsat THEN r.feedback_given ELSE r.active_sessions
Derived(r) == IF SelectedIsMsat THEN r.msat ELSE r.ticket_rate

\* the loaded metric rows / releases of the selected range that lie in the
\* period of a bucket row, in file order
MetricMembers(a) ==
    SelectSeq(metrics_df,
              LAMBDA r : InSelectedRange(r.date_) /\ SamePeriod(gran, r.date_, a.period_start))
ReleaseMembers(b) ==
    SelectSeq(releases_df,
              LAMBDA r : InSelectedRange(r.updated) /\ SamePeriod(gran, r.updated, b.period_start))

(***************************************************************************)
(* C1  Weekly buckets run from a Sunday 00:00 to the following Saturday,   *)
(*     contain the day they are assigned to, every day of the week is      *)
(*     assigned the same bucket, and a Sunday starts its own bucket.       *)
(***************************************************************************)
IsWeekOf(ts, ps, pe) ==
    /\ IsSunday(DateOf(ps)) /\ ps = DateOf(ps) * SecPerDay
    /\ IsSaturday(DateOf(pe)) /\ DateOf(pe) = DateOf(ps) + 6
    /\ ps <= ts /\ ts <= pe
    /\ IsSunday(DateOf(ts)) => DateOf(ps) = DateOf(ts)
    /\ \A x \in DateOf(ps) .. DateOf(pe) :
          /\ week_start_time(x * SecPerDay) = ps
          /\ week_end_time(x * SecPerDay) = pe

\* C1: under Weekly every metric row and every release of the range carries
\* the Sunday-to-Saturday week that contains its day.
C1_WeeklyBuckets ==
    gran = "Weekly" =>
        /\ \A i \in DOMAIN df :
              IsWeekOf(df[i].date_, df[i].period_start, df[i].period_end)
        /\ \A i \in DOMAIN rel_filtered :
              IsWeekOf(rel_filtered[i].updated, rel_filtered[i].period_start,
                       rel_filtered[i].period_end)

\* a release updated on a Sunday and a metric row of the Saturday before
\* are both bucketed; the release starts its own week
C1_Witness ==
    /\ gran = "Weekly"
    /\ \E i \in DOMAIN rel_filtered :
          /\ IsSunday(DateOf(rel_filtered[i].updated))
          /\ rel_filtered[i].period_start = rel_filtered[i].updated
    /\ \E i \in DOMAIN df :
          /\ IsSaturday(DateOf(df[i].date_))
          /\ DateOf(df[i].period_end) = DateOf(df[i].date_)

(***************************************************************************)
(* C2  A metric row and a release of the same calendar period get the same *)
(*     bucket key and the same `time` label.                               *)
(***************************************************************************)
AssignedStart(r) == IF gran = "Daily" THEN r.date_ ELSE r.period_start

SameKey(x, y) ==
    /\ x.period_start = y.period_start
    /\ gran = "Weekly" => x.period_end = y.period_end

\* C2: for every metric row and release of the range in the same calendar
\* period, the row's bucket in df_agg and the release's bucket in rel_count
\* have equal keys and equal labels.
C2_SharedBuckets ==
    \A i \in DOMAIN df, j \in DOMAIN rel_filtered :
        SamePeriod(gran, df[i].date_, rel_filtered[j].updated) =>
            \E a \in DOMAIN df_agg, b \in DOMAIN rel_count :
                /\ df_agg[a].period_start = AssignedStart(df[i])
                /\ SameKey(rel_count[b], rel_filtered[j])
                /\ SameKey(df_agg[a], rel_count[b])
                /\ df_agg[a].time = rel_count[b].time

\* a metric row and a release on different days of one month (Monthly)
\* share the bucket
C2_Witness ==
    /\ gran = "Monthly"
    /\ \E i \in DOMAIN df, j \in DOMAIN rel_filtered :
          /\ df[i].date_ # rel_filtered[j].updated
          /\ SamePeriod("Monthly", df[i].date_, rel_filtered[j].updated)
          /\ \E a \in DOMAIN df_agg, b \in DOMAIN rel_count :
                /\ df_agg[a].time = rel_count[b].time
                /\ df_agg[a].period_start = df[i].period_start
                /\ rel_count[b].period_start = rel_filtered[j].period_start

(***************************************************************************)
(* C3  df_agg is in strictly ascending order of period_start and           *)
(*     axis_order lists its labels in that order, one per bucket.          *)
(***************************************************************************)
\* C3: the rows of df_agg ascend strictly by period_start and axis_order is
\* the list of their labels, position by position.
C3_ChronologicalAxis ==
    /\ \A i, j \in DOMAIN df_agg :
          i < j => df_agg[i].period_start < df_agg[j].period_start
    /\ Len(axis_order) = Len(df_agg)
    /\ \A i \in DOMAIN df_agg : axis_order[i] = df_agg[i].time

\* Weekly, the file lists its rows from the latest to the earliest: the axis
\* reads from the earliest week to the latest, which is neither the order of
\* the file nor the order of the labels as strings
C3_Witness ==
    /\ gran = "Weekly"
    /\ axis_order = <<"Nov 26 - Dec 02", "May 26 - Jun 01", "Jun 02 - Jun 08">>
    /\ cache.metrics[1].date_ > cache.metrics[2].date_
    /\ cache.metrics[2].date_ > cache.metrics[3].date_

(***************************************************************************)
(* C4  A zero denominator gives an absent value, which takes no part in    *)
(*     the bucket's mean.                                                  *)
(***************************************************************************)
HasDenominator(r) == Denom(r) # 0
IsAbsent(v) == v.k = "nan"

RECURSIVE ProductOfDenoms(_)
ProductOfDenoms(rows) ==
    IF rows = <<>> THEN 1 ELSE Denom(Head(rows)) * ProductOfDenoms(Tail(rows))

\* the sum of 100 * numerator / denominator over the rows, times p, where p is
\* a multiple of every denominator
RECURSIVE ScaledSumOfRatios(_, _)
ScaledSumOfRatios(rows, p) ==
    IF rows = <<>> THEN 0
    ELSE 100 * Numer(Head(rows)) * (p \div Denom(Head(rows)))
         + ScaledSumOfRatios(Tail(rows), p)

\* v is the arithmetic mean of the ratios of the rows (all with a denominator)
IsMeanOfRatios(v, rows) ==
    /\ v.k = "num"
    /\ v.n * Len(rows) * ProductOfDenoms(rows)
         = v.d * ScaledSumOfRatios(rows, ProductOfDenoms(rows))

HasNoLabel(a) == "value_label" \notin DOMAIN a

\* C4: every loaded row with a zero denominator has an absent derived value,
\* and every bucket's value is the mean over its rows that have a
\* denominator; a bucket with no such row has an absent value and no
\* value label.
C4_ZeroDenominatorAbsent ==
    /\ \A i \in DOMAIN metrics_df :
          ~HasDenominator(metrics_df[i]) => IsAbsent(Derived(metrics_df[i]))
    /\ \A j \in DOMAIN df_agg :
          IF SelectSeq(MetricMembers(df_agg[j]), HasDenominator) = <<>>
          THEN IsAbsent(df_agg[j].value) /\ HasNoLabel(df_agg[j])
          ELSE IsMeanOfRatios(df_agg[j].value,
                              SelectSeq(MetricMembers(df_agg[j]), HasDenominator))

(***************************************************************************)
(* C5  An empty selection gives an empty aggregate, the warning and no     *)
(*     chart.                                                              *)
(***************************************************************************)
NoMetricInRange ==
    \A i \in DOMAIN metrics_df : ~InSelectedRange(metrics_df[i].date_)

\* C5: when no loaded metric row lies in the selected range, df, df_agg and
\* axis_order are empty, the warning is shown and the chart is not; otherwise
\* the chart is shown and the warning is not.
C5_EmptySelection ==
    /\ NoMetricInRange =>
          /\ df = <<>> /\ df_agg = <<>> /\ axis_order = <<>>
          /\ warning /\ ~chart
    /\ ~NoMetricInRange => df_agg # <<>> /\ chart /\ ~warning

\* an ordinary window (start <= end) that lies between the two rows of the
\* metrics file
C5_Witness ==
    /\ start_date <= end_date
    /\ gran = "Monthly" /\ metric_label = "MSAT"
    /\ NoMetricInRange
    /\ Len(metrics_df) = 2
    /\ df_agg = <<>> /\ warning

(***************************************************************************)
(* C6  An inverted date range does not reach the filter.                   *)
(***************************************************************************)
\* C6: the range the filter and the aggregation work on is never inverted.
C6_RangeOrdered == start_date <= end_date

(***************************************************************************)
(* C7  rel_count: one row per period that holds a release of the range,    *)
(*     with their number and their keys in file order.                     *)
(***************************************************************************)
RECURSIVE KeysInOrder(_)
KeysInOrder(rows) ==
    IF Len(rows) = 1 THEN rows[1].issue_key
    ELSE rows[1].issue_key \o ", " \o KeysInOrder(Tail(rows))

RECURSIVE TotalCount(_)
TotalCount(rc) ==
    IF rc = <<>> THEN 0 ELSE Head(rc).releases_count + TotalCount(Tail(rc))

ReleasesInRange == SelectSeq(releases_df, LAMBDA r : InSelectedRange(r.updated))

IsDefined(r) == ~(Numer(r) = 0 /\ Denom(r) = 0)

\* v is the mean of the per-row ratios (x100): the mean of the defined
\* ratios, infinite when one of them is, NaN when none is defined
IsMeanOf(v, defined) ==
    IF defined = <<>> THEN v = NaN
    ELSE IF \E i \in DOMAIN defined : Denom(defined[i]) = 0 THEN v = Inf
    ELSE IsMeanOfRatios(v, defined)

\* C8: every metric row of the range lies in the period of exactly one row
\* of df_agg, every row of df_agg holds at least one, and its value is the
\* arithmetic mean of the per-row ratios of the rows it holds.
C8_MeanOfRatios ==
    /\ \A i \in DOMAIN metrics_df :
          InSelectedRange(metrics_df[i].date_) =>
              \E a \in DOMAIN df_agg :
                  SamePeriod(gran, metrics_df[i].date_, df_agg[a].period_start)
    /\ \A a, b \in DOMAIN df_agg :
          a # b => ~SamePeriod(gran, df_agg[a].period_start, df_agg[b].period_start)
    /\ \A a \in DOMAIN df_agg :
          /\ MetricMembers(df_agg[a]) # <<>>
          /\ IsMeanOf(df_agg[a].value, SelectSeq(MetricMembers(df_agg[a]), IsDefined))

RECURSIVE SumOfNumers(_)
SumOfNumers(rows) == IF rows = <<>> THEN 0 ELSE Numer(Head(rows)) + SumOfNumers(Tail(rows))
RECURSIVE SumOfDenoms(_)
SumOfDenoms(rows) == IF rows = <<>> THEN 0 ELSE Denom(Head(rows)) + SumOfDenoms(Tail(rows))

\* a bucket of two rows with ratios 1/1 and 1/2: the value is 75, the mean of
\* 100 and 50, and not 100 * 2 / 3, the ratio of the summed counts
C8_Witness ==
    \E a \in DOMAIN df_agg :
        /\ Len(MetricMembers(df_agg[a])) = 2
        /\ \A i \in 1..2 : Denom(MetricMembers(df_agg[a])[i]) # 0
        /\ df_agg[a].value = [k |-> "num", n |-> 75, d |-> 1]
        /\ df_agg[a].value_label = "75.0%"
        /\ SumOfNumers(MetricMembers(df_agg[a])) = 2
        /\ SumOfDenoms(MetricMembers(df_agg[a])) = 3

(***************************************************************************)
(* C9  A pass leaves the loaded tables alone and its results depend on     *)
(*     the selection only.                                                 *)
(***************************************************************************)
Selection == <<gran, start_date, end_date, metric_label>>
Results   == <<df, df_agg, axis_order, rel_filtered, rel_count, warning, chart>>

SeqRange(s) == {s[i] : i \in DOMAIN s}

====
